---------------------------- MODULE Spec2Model ----------------------------
(***************************************************************************)
(* Model of src/mcp_chatgpt_client.py (class MCPChatGPTClient): the GUI    *)
(* thread, the async worker thread, and the two setup threads (init_openai *)
(* and init_mcp), communicating through message_queue, response_queue and  *)
(* status_queue.                                                           *)
(*                                                                         *)
(* Texts built by f-strings are sequences of tokens, so that "the text     *)
(* includes the tool's name" is a property of the formatted value.         *)
(* The completion backend and the tool provider are the environment: each  *)
(* call either returns one of a small set of answers or raises.  The end   *)
(* of the process after root.destroy() (the daemon threads are killed) is  *)
(* not modelled: every thread runs on until it has nothing left to do.     *)
(***************************************************************************)
EXTENDS Naturals, Sequences, FiniteSets

\* ------------------------------------------------------------------ bounds
MaxMsgs == 2          \* submissions through send_message_sync
MaxParts == 3         \* parts of a result.content given to execute_mcp_tool's formatting
MaxTools == 3         \* tools of a catalog given to mcp_tools_to_openai_format

\* ------------------------------------------------------------------ inputs
QUIT == "QUIT"
\* what the user can type as the n-th submission (after .strip()): nothing, the
\* word QUIT, or a message of its own
MsgText(n) == <<"m1", "m2", "m3", "m4">>[n]
Typed(n) == {"", QUIT, MsgText(n)}
\* the tool lists the provider may answer list_tools with, and the tool names the
\* backend may put in a tool call ("t2" is a name no catalog holds)
T1 == [name |-> "t1", description |-> "status of the wifi", inputSchema |-> "schema1"]
ProviderTools == {<<>>, <<T1>>}
\* the ids the backend gives the tool calls of its responses, each used once
ToolCallIds == <<"call_1", "call_2">>
\* a tool call of a response: its name and function.arguments, a JSON string
ToolCallShapes == {[name |-> "t1", arguments |-> "{}"],
                   [name |-> "t2", arguments |-> "{}"],
                   [name |-> "t1", arguments |-> "{bad"]}
\* reasons a provider session can fail with (str(e))
Refused == "connection refused"
CallFailed == "connection lost during call_tool"
\* result.content lists the provider can answer call_tool with
TextPart(t) == [type |-> "text", text |-> t]
ImagePart == [type |-> "image", text |-> "<none>"]
ResultContents == {<<>>, <<TextPart("up"), ImagePart>>}
\* every catalog of up to MaxTools tools, for the adapter taken alone: self.mcp_tools
\* is a dict, so the names differ; a tool may come without an inputSchema attribute
Scan == [name |-> "scan", description |-> "scan the networks"]
Ping == [name |-> "ping", description |-> "ping a host", inputSchema |-> "schema2"]
Info == [name |-> "info", description |-> "", inputSchema |-> "schema1"]
Tools == {T1, Scan, Ping, Info}
Catalogs ==
  {c \in UNION {[1..n -> Tools] : n \in 0..MaxTools} :
     \A i, j \in DOMAIN c : c[i].name = c[j].name => i = j}
\* every result.content of up to MaxParts parts, for the formatting taken alone
Parts == {TextPart("up"), TextPart("down"), TextPart(""), ImagePart}
Contents == UNION {[1..n -> Parts] : n \in 0..MaxParts}

VARIABLES
  gui,               \* the Tk main loop: "running", "closing" (in on_closing), "closed"
  pcA,               \* complete_setup / init_openai thread
  pcB,               \* get_mcp_command / init_mcp thread
  openai_client,     \* self.openai_client
  mcp_server_params, \* self.mcp_server_params
  mcp_tools,         \* self.mcp_tools, the tools in the dict's order
  chat_history,      \* self.chat_history
  message_queue,     \* self.message_queue
  response_queue,    \* self.response_queue
  status_queue,      \* self.status_queue
  chat_display,      \* what display_message has inserted into self.chat_display
  status_label,      \* text of self.status_label
  pc,                \* position of the worker thread
  tool_calls,        \* message_obj.tool_calls of the exchange in flight
  idx,               \* position of the for loop over tool_calls
  session,           \* the provider session of execute_mcp_tool
  request,           \* the last request given to chat.completions.create
  ncalls,            \* number of chat.completions.create calls made
  nextId,            \* the backend's next unused tool call id (a position of ToolCallIds)
  result_content,    \* execute_mcp_tool: result.content of the last call_tool that answered
  last_tool_result,  \* chat_with_gpt: tool_result, what execute_mcp_tool returned last
  dequeued,          \* history: what message_queue.get_nowait() has returned
  submitted          \* history: number of non-empty submissions

vars == <<gui, pcA, pcB, openai_client, mcp_server_params, mcp_tools, chat_history,
          message_queue, response_queue, status_queue, chat_display, status_label,
          pc, tool_calls, idx, session, request, ncalls, nextId, result_content,
          last_tool_result, dequeued, submitted>>

guiVars == <<gui, chat_display, status_label, submitted>>
setupVars == <<pcA, pcB, openai_client, mcp_server_params, mcp_tools>>
workerVars == <<chat_history, pc, tool_calls, idx, session, request, ncalls, nextId,
                result_content, last_tool_result, dequeued>>

\* ----------------------------------------------------------------- helpers
Last(s) == s[Len(s)]

\* transcript entries
\* a faulty variant of UserEntry: the entry does not hold the message
UserEntryBlank(message) ==
  [role |-> "user", content |-> <<"">>, tool_calls |-> <<>>, tool_call_id |-> "none"]

UserEntry(message) ==
  [role |-> "user", content |-> <<message>>, tool_calls |-> <<>>, tool_call_id |-> "none"]

\* a faulty variant of AssistantEntry: the entry loses the response's content
AssistantEntryEmpty(content) ==
  [role |-> "assistant", content |-> <<>>, tool_calls |-> <<>>, tool_call_id |-> "none"]

AssistantEntry(content) ==
  [role |-> "assistant", content |-> content, tool_calls |-> <<>>, tool_call_id |-> "none"]

ToolCallsEntry(tcs) ==
  [role |-> "assistant", content |-> <<>>, tool_calls |-> tcs, tool_call_id |-> "none"]

\* --------------------------------------------------------------- GUI thread
\* display_message: the line inserted into the chat window (the timestamp left out)
Formatted(message, sender) ==
  IF sender = "user" THEN <<"You:">> \o message
  ELSE IF sender = "assistant" THEN <<"ChatGPT:">> \o message
  ELSE IF sender = "tool" THEN message
  ELSE <<"Error:">> \o message

display_message(display, message, sender) ==
  Append(display, [sender |-> sender, text |-> Formatted(message, sender)])

NotConnectedText == <<"OpenAI API not connected. Please check your API key.">>

\* send_message_sync, with the text of the input entry after .strip()
send_message_sync(typed) ==
  /\ gui = "running"
  /\ submitted < MaxMsgs
  /\ IF typed = ""
       THEN UNCHANGED <<chat_display, message_queue, submitted>>
       ELSE /\ submitted' = submitted + 1
            /\ IF openai_client = "None"
                 THEN /\ chat_display' =
                           display_message(display_message(chat_display, <<typed>>, "user"),
                                           NotConnectedText, "error")
                      /\ UNCHANGED message_queue
                 ELSE /\ chat_display' = display_message(chat_display, <<typed>>, "user")
                      /\ message_queue' = Append(message_queue, typed)
  /\ UNCHANGED <<gui, status_label, response_queue, status_queue>>
  /\ UNCHANGED setupVars
  /\ UNCHANGED workerVars

RECURSIVE DisplayAll(_, _)
DisplayAll(display, events) ==
  IF events = <<>> THEN display
  ELSE DisplayAll(display_message(display, Head(events).message, Head(events).sender),
                  Tail(events))

\* a faulty variant of check_responses: the GUI thread also clears the transcript
\* when it finds an error event
check_responsesClears ==
  /\ gui = "running"
  /\ chat_display' = DisplayAll(chat_display, response_queue)
  /\ chat_history' = IF \E i \in DOMAIN response_queue : response_queue[i].sender = "error"
                       THEN <<>> ELSE chat_history
  /\ response_queue' = <<>>
  /\ status_label' = IF status_queue = <<>> THEN status_label ELSE Last(status_queue)
  /\ status_queue' = <<>>
  /\ UNCHANGED <<gui, submitted, message_queue>>
  /\ UNCHANGED setupVars
  /\ UNCHANGED <<pc, tool_calls, idx, session, request, ncalls, nextId, result_content,
                 last_tool_result, dequeued>>

\* check_responses: drain response_queue into the chat window, status_queue into the label
check_responses ==
  /\ gui = "running"
  /\ chat_display' = DisplayAll(chat_display, response_queue)
  /\ response_queue' = <<>>
  /\ status_label' = IF status_queue = <<>> THEN status_label ELSE Last(status_queue)
  /\ status_queue' = <<>>
  /\ UNCHANGED <<gui, submitted, message_queue>>
  /\ UNCHANGED setupVars
  /\ UNCHANGED workerVars

\* on_closing up to executor_thread.join(timeout=2)
on_closing ==
  /\ gui = "running"
  /\ message_queue' = Append(message_queue, QUIT)
  /\ gui' = "closing"
  /\ UNCHANGED <<chat_display, status_label, submitted, response_queue, status_queue>>
  /\ UNCHANGED setupVars
  /\ UNCHANGED workerVars

\* on_closing after the join returned (the worker ended or the 2 s ran out): root.destroy()
root_destroy ==
  /\ gui = "closing"
  /\ gui' = "closed"
  /\ UNCHANGED <<chat_display, status_label, submitted, message_queue, response_queue,
                 status_queue>>
  /\ UNCHANGED setupVars
  /\ UNCHANGED workerVars

\* ------------------------------------------------------------ setup, Phase A
\* complete_setup: the key comes from the environment or the dialog, or there is none
complete_setup ==
  /\ gui = "running"
  /\ pcA = "pending"
  /\ \E api_key \in BOOLEAN : pcA' = IF api_key THEN "start" ELSE "nokey"
  /\ UNCHANGED <<pcB, openai_client, mcp_server_params, mcp_tools>>
  /\ UNCHANGED guiVars
  /\ UNCHANGED workerVars
  /\ UNCHANGED <<message_queue, response_queue, status_queue>>

OpenAIFailedStatus == <<"OpenAI API connection failed", "Failed to connect to OpenAI">>

\* initialize_openai up to the assignment of self.openai_client
initialize_openai_client ==
  /\ pcA = "start"
  /\ \/ /\ openai_client' = "client"
        /\ pcA' = "testing"
        /\ status_queue' = Append(status_queue, "Connecting to OpenAI API...")
     \/ /\ UNCHANGED openai_client
        /\ pcA' = "failed"
        /\ status_queue' = status_queue \o <<"Connecting to OpenAI API...">>
                             \o OpenAIFailedStatus
  /\ UNCHANGED <<pcB, mcp_server_params, mcp_tools>>
  /\ UNCHANGED guiVars
  /\ UNCHANGED workerVars
  /\ UNCHANGED <<message_queue, response_queue>>

\* initialize_openai from self.openai_client.models.list() on, and init_openai's branch
initialize_openai_test ==
  /\ pcA = "testing"
  /\ \/ /\ pcA' = "ok"
        /\ pcB' = "ask"
        /\ status_queue' = Append(status_queue, "OpenAI API connected successfully")
     \/ /\ pcA' = "failed"
        /\ UNCHANGED pcB
        /\ status_queue' = status_queue \o OpenAIFailedStatus
  /\ UNCHANGED <<openai_client, mcp_server_params, mcp_tools>>
  /\ UNCHANGED guiVars
  /\ UNCHANGED workerVars
  /\ UNCHANGED <<message_queue, response_queue>>

\* ------------------------------------------------------------ setup, Phase B
\* get_mcp_command, run by the main loop: the user gives a command or cancels
get_mcp_command ==
  /\ gui = "running"
  /\ pcB = "ask"
  /\ \/ /\ pcB' = "start"
        /\ UNCHANGED status_queue
     \/ /\ pcB' = "none"
        /\ status_queue' = Append(status_queue, "ChatGPT ready (no MCP tools)")
  /\ UNCHANGED <<pcA, openai_client, mcp_server_params, mcp_tools>>
  /\ UNCHANGED guiVars
  /\ UNCHANGED workerVars
  /\ UNCHANGED <<message_queue, response_queue>>

McpFailedStatus == <<"MCP connection failed", "ChatGPT ready, but MCP tools unavailable">>

\* initialize_mcp up to the assignment of self.mcp_server_params; a command of
\* blanks splits into no parts and server_command[0] raises
initialize_mcp_params ==
  /\ pcB = "start"
  /\ \/ /\ mcp_server_params' = "params"
        /\ pcB' = "connecting"
        /\ status_queue' = Append(status_queue, "Connecting to MCP server...")
     \/ /\ UNCHANGED mcp_server_params
        /\ pcB' = "failed"
        /\ status_queue' = status_queue \o <<"Connecting to MCP server...">>
                             \o McpFailedStatus
  /\ UNCHANGED <<pcA, openai_client, mcp_tools>>
  /\ UNCHANGED guiVars
  /\ UNCHANGED workerVars
  /\ UNCHANGED <<message_queue, response_queue>>

\* initialize_mcp: the test session (initialize, list_tools), and init_mcp's branch.
\* The session can fail before self.mcp_tools is assigned (entering it, initialize,
\* list_tools) or after (leaving the two async with blocks, still inside the try).
initialize_mcp_connect ==
  /\ pcB = "connecting"
  /\ \/ \E tools \in ProviderTools :
          /\ mcp_tools' = tools
          /\ pcB' = "ok"
          /\ status_queue' = status_queue \o <<"MCP connected", "Ready!">>
     \/ /\ UNCHANGED mcp_tools
        /\ pcB' = "failed"
        /\ status_queue' = status_queue \o McpFailedStatus
     \/ \E tools \in ProviderTools :
          /\ mcp_tools' = tools
          /\ pcB' = "failed"
          /\ status_queue' = status_queue \o McpFailedStatus
  /\ UNCHANGED <<pcA, openai_client, mcp_server_params>>
  /\ UNCHANGED guiVars
  /\ UNCHANGED workerVars
  /\ UNCHANGED <<message_queue, response_queue>>


\* ------------------------------------------------------------ worker thread
\* mcp_tools_to_openai_format: one declaration per tool, in the dict's order
EmptySchema == "{type: object, properties: {}}"

\* a faulty variant of OpenAITool: a tool without inputSchema gets no parameters
OpenAIToolNoDefault(tool) ==
  [type |-> "function",
   function |-> [name |-> tool.name,
                 description |-> tool.description,
                 parameters |-> IF "inputSchema" \in DOMAIN tool
                                  THEN tool.inputSchema ELSE "None"]]

OpenAITool(tool) ==
  [type |-> "function",
   function |-> [name |-> tool.name,
                 description |-> tool.description,
                 parameters |-> IF "inputSchema" \in DOMAIN tool
                                  THEN tool.inputSchema ELSE EmptySchema]]

\* a faulty variant of mcp_tools_to_openai_format: the order of the declarations
\* depends on how many requests were made before
AdapterOrderByCall(tools) ==
  [i \in 1..Len(tools) |->
     OpenAITool(tools[IF ncalls % 2 = 0 THEN i ELSE Len(tools) + 1 - i])]

mcp_tools_to_openai_format(tools) == [i \in 1..Len(tools) |-> OpenAITool(tools[i])]

\* the keys of self.mcp_tools
CatalogNames == {mcp_tools[i].name : i \in 1..Len(mcp_tools)}

\* json.loads(tool_call.function.arguments) raises unless the string is JSON
JsonValid(arguments) == arguments = "{}"

\* execute_mcp_tool, the text returned for result.content
RECURSIVE JoinLines(_)
JoinLines(parts) ==
  IF Len(parts) = 0 THEN <<>>
  ELSE IF Len(parts) = 1 THEN <<Head(parts)>>
  ELSE <<Head(parts), "\n">> \o JoinLines(Tail(parts))

PartText(content) ==
  IF content.type = "text" THEN content.text ELSE "ImageContent(type='image')"

\* a faulty variant of NoOutput: an empty result gives an empty text
NoOutputNothing == <<>>

NoOutput == <<"Tool executed successfully (no output)">>

\* a faulty variant of FormatResult: only the first part is returned
FormatResultFirstPart(content) ==
  IF content # <<>> THEN <<PartText(content[1])>> ELSE NoOutput

FormatResult(content) ==
  IF content # <<>>
    THEN JoinLines([i \in 1..Len(content) |-> PartText(content[i])])
    ELSE NoOutput

\* a faulty variant of ToolErrorText: the message leaves the tool's name out
ToolErrorTextNoName(tool_name, reason) == <<"Error executing tool: ", reason>>

\* execute_mcp_tool, the text returned from the except clause
ToolErrorText(tool_name, reason) == <<"Error executing tool ", tool_name, ": ", reason>>

\* chat_with_gpt, the text of the error event of the except clause
ChatErrorText(reason) == <<"Error communicating with ChatGPT: ", reason>>

\* a faulty variant of ToolNotice: every notice names the first tool call of the turn
ToolNoticeFirstCall(tool_name, arguments) ==
  <<"Calling tool: ", tool_calls[1].name, " with ", arguments>>

ToolNotice(tool_name, arguments) == <<"Calling tool: ", tool_name, " with ", arguments>>

\* a faulty variant of ToolEntry: every entry carries the id of the first tool call
ToolEntryFirstId(tool_call, tool_result) ==
  [role |-> "tool", content |-> tool_result, tool_calls |-> <<>>,
   tool_call_id |-> tool_calls[1].id]

ToolEntry(tool_call, tool_result) ==
  [role |-> "tool", content |-> tool_result, tool_calls |-> <<>>,
   tool_call_id |-> tool_call.id]

\* a faulty variant of Event: a failure is put as an assistant event
EventHidesError(sender, message) ==
  [sender |-> IF sender = "error" THEN "assistant" ELSE sender, message |-> message]

\* an item of response_queue: the pair (sender, message)
Event(sender, message) == [sender |-> sender, message |-> message]

\* a faulty variant of FirstRequest: only the newest entry is sent
FirstRequestNewestOnly(history, tools) ==
  [messages |-> <<Last(history)>>,
   tools |-> IF tools # <<>> THEN mcp_tools_to_openai_format(tools) ELSE <<>>,
   tool_choice |-> IF tools # <<>> THEN "auto" ELSE "None"]

\* the first chat.completions.create call of chat_with_gpt
FirstRequest(history, tools) ==
  [messages |-> history,
   tools |-> IF tools # <<>> THEN mcp_tools_to_openai_format(tools) ELSE <<>>,
   tool_choice |-> IF tools # <<>> THEN "auto" ELSE "None"]

\* the second one: messages only
FollowUpRequest(history) == [messages |-> history, tools |-> <<>>, tool_choice |-> "omitted"]

\* a faulty variant of ExchangeRaises: the exception is reported and ends the loop
ExchangeRaisesAndStops(reason) ==
  /\ response_queue' = Append(response_queue, Event("error", ChatErrorText(reason)))
  /\ pc' = "done"
  /\ tool_calls' = <<>>
  /\ idx' = 0

\* chat_with_gpt leaves through its except clause: one error event, back to the loop
ExchangeRaises(reason) ==
  /\ response_queue' = Append(response_queue, Event("error", ChatErrorText(reason)))
  /\ pc' = "poll"
  /\ tool_calls' = <<>>
  /\ idx' = 0

\* a faulty variant of IsSentinel: QUIT ends the loop only once the window is closing
IsSentinelOnlyOnClose(message) == message = QUIT /\ gui # "running"

\* a faulty variant of IsSentinel: the loop tests for another word
IsSentinelOtherWord(message) == message = "quit"

\* async_worker: the test that ends the loop
IsSentinel(message) == message = QUIT

\* async_worker: one round of the loop that finds a message, and chat_with_gpt up to
\* its first completion call. A round that finds the queue empty changes nothing.
worker_poll ==
  /\ pc = "poll"
  /\ message_queue # <<>>
  /\ message_queue' = Tail(message_queue)
  /\ dequeued' = Append(dequeued, Head(message_queue))
  /\ IF IsSentinel(Head(message_queue))
       THEN /\ pc' = "done"
            /\ UNCHANGED <<chat_history, request, ncalls>>
       ELSE /\ chat_history' = Append(chat_history, UserEntry(Head(message_queue)))
            /\ request' = FirstRequest(chat_history', mcp_tools)
            /\ ncalls' = ncalls + 1
            /\ pc' = "first_call"
  /\ UNCHANGED <<tool_calls, idx, session, nextId, result_content, last_tool_result>>
  /\ UNCHANGED <<response_queue, status_queue>>
  /\ UNCHANGED guiVars
  /\ UNCHANGED setupVars

\* the tool calls of a response: the next unused ids, in order
ToolCallsOf(shapes, first_id) ==
  [i \in DOMAIN shapes |->
     [id |-> ToolCallIds[first_id + i - 1], name |-> shapes[i].name,
      arguments |-> shapes[i].arguments]]

\* chat_with_gpt: the first completion call answers or raises. The backend sends
\* tool calls only when the request declared tools (it may name a tool that was not
\* declared), and only while it has unused ids.
first_response ==
  /\ pc = "first_call"
  /\ \/ /\ ExchangeRaises("backend error")
        /\ UNCHANGED <<chat_history, nextId>>
     \/ /\ chat_history' = Append(chat_history, AssistantEntry(<<"reply">>))
        /\ response_queue' = Append(response_queue, Event("assistant", <<"reply">>))
        /\ pc' = "poll"
        /\ UNCHANGED <<tool_calls, idx, nextId>>
     \/ /\ request.tools # <<>>
        /\ \E k \in 1..(Len(ToolCallIds) + 1 - nextId) :
             \E shapes \in [1..k -> ToolCallShapes] :
               /\ tool_calls' = ToolCallsOf(shapes, nextId)
               /\ nextId' = nextId + k
        /\ chat_history' = Append(chat_history, ToolCallsEntry(tool_calls'))
        /\ idx' = 1
        /\ pc' = "tool_args"
        /\ UNCHANGED response_queue
  /\ UNCHANGED <<session, request, ncalls, result_content, last_tool_result, dequeued>>
  /\ UNCHANGED <<message_queue, status_queue>>
  /\ UNCHANGED guiVars
  /\ UNCHANGED setupVars

\* the for loop's body up to the call of execute_mcp_tool
tool_args ==
  /\ pc = "tool_args"
  /\ IF JsonValid(tool_calls[idx].arguments)
       THEN /\ response_queue' =
                 Append(response_queue,
                        Event("tool", ToolNotice(tool_calls[idx].name,
                                                 tool_calls[idx].arguments)))
            /\ pc' = "tool_open"
            /\ UNCHANGED <<tool_calls, idx>>
       ELSE ExchangeRaises("json decode error")
  /\ UNCHANGED <<chat_history, session, request, ncalls, nextId, result_content,
                 last_tool_result, dequeued, message_queue, status_queue>>
  /\ UNCHANGED guiVars
  /\ UNCHANGED setupVars

\* a faulty variant of LoopNext: the loop looks for the sentinel between tool calls
LoopNextHonoursQuit(i, k) ==
  IF \E n \in DOMAIN message_queue : message_queue[n] = QUIT THEN "done"
  ELSE IF i < k THEN "tool_args" ELSE "followup"

\* chat_with_gpt: where the for loop over the k tool calls goes after the i-th
LoopNext(i, k) == IF i < k THEN "tool_args" ELSE "followup"

\* a faulty variant of ToolReturns: the tool entry takes the place of the last entry
ToolReturnsOverwrites(text) ==
  /\ session' = "closed"
  /\ last_tool_result' = text
  /\ chat_history' = [chat_history EXCEPT ![Len(chat_history)] =
                                             ToolEntry(tool_calls[idx], text)]
  /\ pc' = LoopNext(idx, Len(tool_calls))
  /\ IF idx < Len(tool_calls)
       THEN /\ idx' = idx + 1
            /\ UNCHANGED <<request, ncalls>>
       ELSE /\ request' = FollowUpRequest(chat_history')
            /\ ncalls' = ncalls + 1
            /\ UNCHANGED idx

\* a faulty variant of ToolReturns: the session is not closed when the call failed
ToolReturnsLeaks(text) ==
  /\ session' = IF text[1] = "Error executing tool " THEN session ELSE "closed"
  /\ last_tool_result' = text
  /\ chat_history' = Append(chat_history, ToolEntry(tool_calls[idx], text))
  /\ pc' = LoopNext(idx, Len(tool_calls))
  /\ IF idx < Len(tool_calls)
       THEN /\ idx' = idx + 1
            /\ UNCHANGED <<request, ncalls>>
       ELSE /\ request' = FollowUpRequest(chat_history')
            /\ ncalls' = ncalls + 1
            /\ UNCHANGED idx

\* execute_mcp_tool returns tool_result: the tool entry is appended, and the loop
\* goes on to the next tool call or, after the last, to the follow-up completion call
ToolReturns(text) ==
  /\ session' = "closed"
  /\ last_tool_result' = text
  /\ chat_history' = Append(chat_history, ToolEntry(tool_calls[idx], text))
  /\ pc' = LoopNext(idx, Len(tool_calls))
  /\ IF idx < Len(tool_calls)
       THEN /\ idx' = idx + 1
            /\ UNCHANGED <<request, ncalls>>
       ELSE /\ request' = FollowUpRequest(chat_history')
            /\ ncalls' = ncalls + 1
            /\ UNCHANGED idx

\* execute_mcp_tool: stdio_client and ClientSession are entered and the session is
\* initialized, or one of them raises
tool_open ==
  /\ pc = "tool_open"
  /\ \/ /\ session' = "open"
        /\ pc' = "tool_call"
        /\ UNCHANGED <<chat_history, idx, request, ncalls, last_tool_result>>
     \/ ToolReturns(ToolErrorText(tool_calls[idx].name, Refused))
  /\ UNCHANGED <<tool_calls, nextId, result_content, dequeued>>
  /\ UNCHANGED <<message_queue, response_queue, status_queue>>
  /\ UNCHANGED guiVars
  /\ UNCHANGED setupVars

\* execute_mcp_tool: session.call_tool(tool_name, arguments) and the result's text
tool_call ==
  /\ pc = "tool_call"
  /\ \/ \E answer \in ResultContents :
          /\ result_content' = answer
          /\ ToolReturns(FormatResult(answer))
     \/ /\ ToolReturns(ToolErrorText(tool_calls[idx].name, CallFailed))
        /\ UNCHANGED result_content
  /\ UNCHANGED <<tool_calls, nextId, dequeued, message_queue, response_queue, status_queue>>
  /\ UNCHANGED guiVars
  /\ UNCHANGED setupVars

\* chat_with_gpt: the follow-up completion call answers or raises
followup_response ==
  /\ pc = "followup"
  /\ \/ /\ ExchangeRaises("backend error")
        /\ UNCHANGED chat_history
     \/ /\ chat_history' = Append(chat_history, AssistantEntry(<<"final">>))
        /\ response_queue' = Append(response_queue, Event("assistant", <<"final">>))
        /\ pc' = "poll"
        /\ tool_calls' = <<>>
        /\ idx' = 0
  /\ UNCHANGED <<session, request, ncalls, nextId, result_content, last_tool_result,
                 dequeued>>
  /\ UNCHANGED <<message_queue, status_queue>>
  /\ UNCHANGED guiVars
  /\ UNCHANGED setupVars

\* ------------------------------------------------------------ specification
Init ==
  /\ gui = "running"
  /\ pcA = "pending"
  /\ pcB = "idle"
  /\ openai_client = "None"
  /\ mcp_server_params = "None"
  /\ mcp_tools = <<>>
  /\ chat_history = <<>>
  /\ message_queue = <<>>
  /\ response_queue = <<>>
  /\ status_queue = <<>>
  /\ chat_display = display_message(<<>>, <<"Welcome">>, "assistant")
  /\ status_label = "Starting up..."
  /\ pc = "poll"
  /\ tool_calls = <<>>
  /\ idx = 0
  /\ session = "closed"
  /\ request = [messages |-> <<>>, tools |-> <<>>, tool_choice |-> "None"]
  /\ ncalls = 0
  /\ nextId = 1
  /\ result_content = <<>>
  /\ last_tool_result = <<>>
  /\ dequeued = <<>>
  /\ submitted = 0

GuiNext ==
  \/ \E typed \in Typed(submitted + 1) : send_message_sync(typed)
  \/ check_responses
  \/ on_closing
  \/ root_destroy
  \/ complete_setup
  \/ get_mcp_command

SetupNext ==
  \/ initialize_openai_client
  \/ initialize_openai_test
  \/ initialize_mcp_params
  \/ initialize_mcp_connect

WorkerNext ==
  \/ worker_poll
  \/ first_response
  \/ tool_args
  \/ tool_open
  \/ tool_call
  \/ followup_response

Next == GuiNext \/ SetupNext \/ WorkerNext

Spec == Init /\ [][Next]_vars

\* The worker thread is scheduled, and every call it awaits answers or raises.
FairSpec == Spec /\ WF_vars(WorkerNext)

\* The worker thread is scheduled and the completion backend answers or raises, but
\* the tool provider may stay silent: execute_mcp_tool awaits the session and
\* call_tool without a timeout, so no step of the worker ends such a wait.
SilentProviderSpec ==
  Spec /\ WF_vars(worker_poll \/ first_response \/ tool_args \/ followup_response)


\* ------------------------------------- execute_mcp_tool's formatting, alone
\* the worker inside execute_mcp_tool for the one tool call of the first exchange:
\* call_tool has answered with any result.content of up to MaxParts parts
FormatCall == ToolCallsOf(<<[name |-> "t1", arguments |-> "{}"]>>, 1)

FormatInit ==
  /\ gui = "running"
  /\ pcA = "ok"
  /\ pcB = "ok"
  /\ openai_client = "client"
  /\ mcp_server_params = "params"
  /\ mcp_tools = <<T1>>
  /\ chat_history = <<UserEntry(MsgText(1)), ToolCallsEntry(FormatCall)>>
  /\ message_queue = <<>>
  /\ response_queue = <<Event("tool", ToolNotice("t1", "{}"))>>
  /\ status_queue = <<>>
  /\ chat_display = display_message(display_message(<<>>, <<"Welcome">>, "assistant"),
                                    <<MsgText(1)>>, "user")
  /\ status_label = "Ready!"
  /\ pc = "tool_call"
  /\ tool_calls = FormatCall
  /\ idx = 1
  /\ session = "open"
  /\ request = FirstRequest(<<UserEntry(MsgText(1))>>, <<T1>>)
  /\ ncalls = 1
  /\ nextId = 2
  /\ result_content \in Contents
  /\ last_tool_result = <<>>
  /\ dequeued = <<MsgText(1)>>
  /\ submitted = 1

\* execute_mcp_tool from "if result.content" to its return
format_result ==
  /\ pc = "tool_call"
  /\ last_tool_result' = FormatResult(result_content)
  /\ session' = "closed"
  /\ pc' = "tool_returned"
  /\ UNCHANGED <<chat_history, tool_calls, idx, request, ncalls, nextId, result_content,
                 dequeued>>
  /\ UNCHANGED <<message_queue, response_queue, status_queue>>
  /\ UNCHANGED guiVars
  /\ UNCHANGED setupVars

FormatNext == format_result

FormatSpec == FormatInit /\ [][FormatNext]_vars

\* ------------------------------------- mcp_tools_to_openai_format, alone
\* both setup phases are over and Phase B has fetched any catalog of up to MaxTools
AdapterInit ==
  /\ gui = "running"
  /\ pcA = "ok"
  /\ pcB = "ok"
  /\ openai_client = "client"
  /\ mcp_server_params = "params"
  /\ mcp_tools \in Catalogs
  /\ chat_history = <<>>
  /\ message_queue = <<>>
  /\ response_queue = <<>>
  /\ status_queue = <<>>
  /\ chat_display = display_message(<<>>, <<"Welcome">>, "assistant")
  /\ status_label = "Ready!"
  /\ pc = "poll"
  /\ tool_calls = <<>>
  /\ idx = 0
  /\ session = "closed"
  /\ request = [messages |-> <<>>, tools |-> <<>>, tool_choice |-> "None"]
  /\ ncalls = 0
  /\ nextId = 1
  /\ result_content = <<>>
  /\ last_tool_result = <<>>
  /\ dequeued = <<>>
  /\ submitted = 0

\* chat_with_gpt up to its first completion call, for one message after the other:
\* the user entry is appended and the request is built from the catalog
build_request ==
  /\ ncalls < MaxMsgs
  /\ chat_history' = Append(chat_history, UserEntry(MsgText(ncalls + 1)))
  /\ request' = FirstRequest(chat_history', mcp_tools)
  /\ ncalls' = ncalls + 1
  /\ UNCHANGED <<pc, tool_calls, idx, session, nextId, result_content, last_tool_result,
                 dequeued>>
  /\ UNCHANGED <<message_queue, response_queue, status_queue>>
  /\ UNCHANGED guiVars
  /\ UNCHANGED setupVars

AdapterNext == build_request

AdapterSpec == AdapterInit /\ [][AdapterNext]_vars

\* ------------------------------------------------------------ vocabulary
ExchangePcs == {"first_call", "tool_args", "tool_open", "tool_call", "followup"}

IsUser(e) == e.role = "user"
IsTool(e) == e.role = "tool"
HoldsToolCalls(e) == e.role = "assistant" /\ e.tool_calls # <<>>
IsFinalAssistant(e) == e.role = "assistant" /\ e.tool_calls = <<>>

\* the texts of the user entries of a transcript, in order
UserTexts(history) ==
  LET users == SelectSeq(history, IsUser)
  IN  [i \in 1..Len(users) |-> users[i].content[1]]

NotQuit(message) == message # QUIT

\* everything ever put on message_queue, in order
Enqueued == dequeued \o message_queue

\* the messages send_message_sync has put on message_queue: all of it but the
\* item on_closing put, which is the last one since the window takes no input after
Inbound ==
  IF gui = "running" THEN Enqueued ELSE SubSeq(Enqueued, 1, Len(Enqueued) - 1)

\* the index of the last assistant entry holding tool calls (0: none)
LastToolCallsIndex(history) ==
  LET held == {i \in DOMAIN history : HoldsToolCalls(history[i])}
  IN  IF held = {} THEN 0 ELSE CHOOSE i \in held : \A j \in held : j <= i

\* the indexes of the tool entries that answer tool call id
Answers(history, id) ==
  {j \in DOMAIN history : IsTool(history[j]) /\ history[j].tool_call_id = id}

\* the (entry, position) pairs of the assistant tool calls with this id before entry j
Asked(history, id, j) ==
  {<<a, i>> \in (1..(j - 1)) \X (1..Len(ToolCallIds)) :
     /\ HoldsToolCalls(history[a])
     /\ i \in DOMAIN history[a].tool_calls
     /\ history[a].tool_calls[i].id = id}

\* every assistant tool call is answered by exactly one tool entry after it, and
\* every tool entry answers exactly one assistant tool call before it
AllResolved(history) ==
  /\ \A a \in DOMAIN history :
       HoldsToolCalls(history[a]) =>
         \A i \in DOMAIN history[a].tool_calls :
           /\ Cardinality(Answers(history, history[a].tool_calls[i].id)) = 1
           /\ \A j \in Answers(history, history[a].tool_calls[i].id) : j > a
  /\ \A j \in DOMAIN history :
       IsTool(history[j]) =>
         Cardinality(Asked(history, history[j].tool_call_id, j)) = 1

Mentions(text, word) == \E i \in DOMAIN text : text[i] = word

ToolNames == {shape.name : shape \in ToolCallShapes}

\* the texts execute_mcp_tool returns for an answer of the provider
ToolResultTexts == {FormatResult(content) : content \in ResultContents}

\* the texts execute_mcp_tool returns from its except clause
IsToolError(text) ==
  \E name \in ToolNames, reason \in {Refused, CallFailed} : text = ToolErrorText(name, reason)

\* the user entries are the dequeued items that started an exchange
UserEntriesFollowDequeues == UserTexts(chat_history) = SelectSeq(dequeued, NotQuit)

\* a step that leaves an exchange without appending a final assistant entry
ExchangeFails ==
  /\ pc \in ExchangePcs
  /\ pc' \notin ExchangePcs
  /\ ~(Len(chat_history') > Len(chat_history) /\ IsFinalAssistant(Last(chat_history')))

\* the worker is between exchanges and the last exchange failed
LastExchangeFailed ==
  pc = "poll" /\ chat_history # <<>> /\ ~IsFinalAssistant(Last(chat_history))

\* a step that dequeues the head of message_queue deals with it as the loop does
\* with any item: the sentinel ends the loop, a message starts its exchange
DequeueStartsExchange ==
  dequeued' # dequeued =>
    /\ message_queue # <<>>
    /\ dequeued' = Append(dequeued, Head(message_queue))
    /\ message_queue' = Tail(message_queue)
    /\ IF Head(message_queue) = QUIT
         THEN pc' = "done" /\ chat_history' = chat_history
         ELSE /\ pc' = "first_call"
              /\ chat_history' = Append(chat_history, UserEntry(Head(message_queue)))
              /\ ncalls' = ncalls + 1

\* the step puts exactly one event on response_queue, of kind error
PutsOneError ==
  /\ Len(response_queue') = Len(response_queue) + 1
  /\ SubSeq(response_queue', 1, Len(response_queue)) = response_queue
  /\ Last(response_queue').sender = "error"

\* -------------------------------------------------------------------- C1
\* C1: once the worker has consumed every message put on the inbound queue, the
\* transcript holds one user entry per message, in the order they were enqueued,
\* whatever their text.
C1_UserEntryPerMessage ==
  (message_queue = <<>> /\ pc \notin ExchangePcs) => UserTexts(chat_history) = Inbound

\* -------------------------------------------------------------------- C2
\* C2: when the follow-up completion call is issued, the transcript ends with the
\* assistant entry holding the k >= 1 tool calls of the first response followed by
\* exactly k tool entries, whose tool_call_ids are k different ids of that response.
C2_ToolEntriesBeforeFollowUp ==
  pc = "followup" =>
    LET a == LastToolCallsIndex(chat_history)
    IN  /\ a > 0
        /\ request.messages = chat_history
        /\ LET tcs == chat_history[a].tool_calls
               k == Len(tcs)
               ids == {chat_history[j].tool_call_id : j \in (a + 1)..Len(chat_history)}
           IN  /\ k >= 1
               /\ Len(chat_history) = a + k
               /\ \A j \in (a + 1)..(a + k) : IsTool(chat_history[j])
               /\ ids \subseteq {tcs[i].id : i \in 1..k}
               /\ Cardinality(ids) = k

C2_Witness == pc = "followup" /\ Len(tool_calls) = 2

\* -------------------------------------------------------------------- C3
\* C3: whenever a completion call is issued, of any exchange, every assistant tool
\* call of the transcript is resolved by exactly one tool entry and every tool entry
\* answers exactly one earlier assistant tool call.
C3_ResolvedAtEveryCall ==
  pc \in {"first_call", "followup"} => AllResolved(request.messages)

\* -------------------------------------------------------------------- C4
\* C4: invoking a tool whose name is not in the catalog opens no provider session
\* and issues no call_tool.
C4_UnknownToolOpensNoSession ==
  (pc = "tool_call" \/ session # "closed") => tool_calls[idx].name \in CatalogNames

\* -------------------------------------------------------------------- C5
\* C5: an exchange that raises puts exactly one error event on the outbound queue
\* and leaves the worker in its loop; the worker ends only by dequeuing between
\* exchanges, and after a failed exchange its next step, ready as soon as a message
\* is queued, dequeues the next inbound message and starts its exchange.
C5_FailureContained ==
  /\ [][ExchangeFails => (pc' = "poll" /\ PutsOneError)]_vars
  /\ [][pc' = "done" => pc \in {"poll", "done"}]_vars
  /\ []((LastExchangeFailed /\ message_queue # <<>>) => ENABLED worker_poll)
  /\ [][LastExchangeFailed => DequeueStartsExchange]_vars

C5_Witness ==
  /\ pc = "first_call"
  /\ Len(chat_history) >= 2
  /\ ~IsFinalAssistant(chat_history[Len(chat_history) - 1])
  /\ \E i \in DOMAIN response_queue : response_queue[i].sender = "error"

\* -------------------------------------------------------------------- C6
\* the tool entries written for a call_tool that failed
CallFailures ==
  {j \in DOMAIN chat_history :
     IsTool(chat_history[j]) /\ Mentions(chat_history[j].content, CallFailed)}

\* a step in which session.call_tool raises
CallToolFails ==
  /\ pc = "tool_call"
  /\ pc' # "tool_call"
  /\ Last(chat_history').content \notin ToolResultTexts

\* the texts of the outbound events of kind error, queued or displayed
ErrorEventTexts ==
  {response_queue[i].message : i \in {n \in DOMAIN response_queue :
                                         response_queue[n].sender = "error"}}
    \cup {chat_display[i].text : i \in {n \in DOMAIN chat_display :
                                           chat_display[n].sender = "error"}}

\* C6 as stated: after a call_tool that failed, an outbound event of kind error
\* whose text includes the tool's name has been emitted by the end of the exchange.
C6_ErrorEventNamesTool ==
  pc \notin ExchangePcs =>
    \A j \in CallFailures :
      \E name \in ToolNames, text \in ErrorEventTexts :
        /\ chat_history[j].content = ToolErrorText(name, CallFailed)
        /\ Mentions(text, name)

\* C6 as amended: when call_tool fails, the error text, which includes the tool's
\* name, becomes the tool entry of that tool call, no outbound event is put for it
\* and the exchange goes on; the worker is never stuck afterwards (it has a step to
\* take unless it waits on an empty queue or has ended on the sentinel), and its
\* next dequeue starts the next message's exchange.
C6_ErrorTextInToolEntry ==
  /\ [][CallToolFails =>
          LET e == Last(chat_history')
          IN  /\ chat_history' = Append(chat_history, e)
              /\ IsTool(e)
              /\ e.tool_call_id = tool_calls[idx].id
              /\ Mentions(e.content, tool_calls[idx].name)
              /\ response_queue' = response_queue
              /\ pc' \in {"tool_args", "followup"}]_vars
  /\ []((CallFailures # {} /\ pc # "done" /\ (pc # "poll" \/ message_queue # <<>>))
          => ENABLED WorkerNext)
  /\ [][CallFailures # {} => DequeueStartsExchange]_vars
  /\ [](CallFailures # {} => UserEntriesFollowDequeues)

C6_Witness ==
  /\ pc = "first_call"
  /\ Len(dequeued) = 2
  /\ CallFailures # {}

\* -------------------------------------------------------------------- C7
\* C7: when a tool invocation of a turn fails, its error text becomes the tool entry
\* of that tool call, and every tool call of the turn is still resolved (the
\* follow-up call is issued only after the last of them).
C7_FailedToolDoesNotAbort ==
  pc \notin ExchangePcs =>
    \A a \in DOMAIN chat_history :
      LET tcs == chat_history[a].tool_calls
      IN  (/\ HoldsToolCalls(chat_history[a])
           /\ \E i \in DOMAIN tcs : \E j \in Answers(chat_history, tcs[i].id) :
                IsToolError(chat_history[j].content))
            => \A i \in DOMAIN tcs : Answers(chat_history, tcs[i].id) # {}

\* -------------------------------------------------------------------- C8
\* C8: while Phase A (initialize_openai) has not succeeded, and after it failed, no
\* inbound message is enqueued, no user entry is appended and no completion call
\* is made.
C8_BlockedUntilPhaseA ==
  pcA # "ok" =>
    (SelectSeq(Inbound, NotQuit) = <<>> /\ chat_history = <<>> /\ ncalls = 0)

C11_StuckCallLiveness ==
  /\ (pc \in ExchangePcs) ~> (pc \notin ExchangePcs)
  /\ (message_queue # <<>>) ~> (message_queue = <<>> \/ pc = "done")

\* ------------------------------------------------------------------- C12
\* the failure of Phase B is on the status channel, queued or shown
McpFailureReported ==
  \/ \E i \in DOMAIN status_queue : status_queue[i] = McpFailedStatus[1]
  \/ status_label = Last(McpFailedStatus)

\* C12: after a failed Phase B (initialize_mcp returned False) the catalog is empty
\* as before, the failure is reported on the status channel, the exchanges run
\* without tools (no declarations sent, no tool call executed), and what Phase A
\* allows still happens: a message typed is enqueued and a queued one is dequeued.
C12_PhaseBDegrades ==
  pcB = "failed" =>
    /\ mcp_tools = <<>>
    /\ McpFailureReported
    /\ request.tools = <<>>
    /\ tool_calls = <<>>
    /\ pc \in {"poll", "first_call", "done"}
    /\ (gui = "running" /\ submitted < MaxMsgs /\ openai_client # "None")
         => ENABLED (/\ send_message_sync(MsgText(submitted + 1))
                     /\ message_queue' = Append(message_queue, MsgText(submitted + 1)))
    /\ (pc = "poll" /\ message_queue # <<>>) => ENABLED worker_poll

\* ------------------------------------------------------------------- C13
\* the texts of the parts: a text part's text, any other part stringified
PartTexts(parts) == [i \in 1..Len(parts) |-> PartText(parts[i])]

\* C13 as stated: for one or more parts, execute_mcp_tool returns the part texts
\* one after the other, in the provider's order, and nothing else.
C13_ConcatenationOfParts ==
  (pc = "tool_returned" /\ result_content # <<>>)
    => last_tool_result = PartTexts(result_content)

\* C13 as amended: for n >= 1 parts, execute_mcp_tool returns the n part texts in
\* the provider's order with one newline between two consecutive ones.
C13_PartsJoinedByNewlines ==
  (pc = "tool_returned" /\ result_content # <<>>)
    => LET n == Len(result_content)
       IN  /\ Len(last_tool_result) = 2 * n - 1
           /\ \A i \in 1..n : last_tool_result[2 * i - 1] = PartTexts(result_content)[i]
           /\ \A i \in 1..(n - 1) : last_tool_result[2 * i] = "\n"

C13_Witness ==
  /\ pc = "tool_returned"
  /\ Len(result_content) = MaxParts
  /\ result_content[1] = ImagePart
  /\ result_content[2] = TextPart("down")
  /\ Len(last_tool_result) = 2 * MaxParts - 1

\* ------------------------------------------------------------------- C14
\* a step in which call_tool answers with a result of zero parts
ZeroPartsAnswer ==
  /\ pc = "tool_call"
  /\ pc' # "tool_call"
  /\ result_content' = <<>>
  /\ ~IsToolError(last_tool_result')

\* a step in which the follow-up completion call answers or raises
FollowUpEnds == pc = "followup" /\ pc' # "followup"

\* the step appends a final assistant entry and puts its content on response_queue
\* as one event of kind assistant
EmitsFinalAssistant ==
  /\ Len(chat_history') = Len(chat_history) + 1
  /\ IsFinalAssistant(Last(chat_history'))
  /\ response_queue' = Append(response_queue,
                              Event("assistant", Last(chat_history').content))

\* C14: when call_tool answers with zero parts, the tool entry appended for that
\* tool call holds the fixed no-output text and no event is put; the loop goes on,
\* and after the last tool call the follow-up completion call is issued with the
\* transcript; when that call answers (it can at every follow-up), the final
\* assistant entry is appended and emitted as an assistant event.
C14_NoOutputSentinel ==
  /\ [][ZeroPartsAnswer =>
          LET e == Last(chat_history')
          IN  /\ chat_history' = Append(chat_history, e)
              /\ IsTool(e)
              /\ e.tool_call_id = tool_calls[idx].id
              /\ e.content = <<"Tool executed successfully (no output)">>
              /\ response_queue' = response_queue
              /\ IF idx = Len(tool_calls)
                   THEN /\ pc' = "followup"
                        /\ ncalls' = ncalls + 1
                        /\ request'.messages = chat_history'
                   ELSE /\ pc' = "tool_args"
                        /\ idx' = idx + 1]_vars
  /\ [](pc = "followup" => ENABLED (followup_response /\ EmitsFinalAssistant))
  /\ [][FollowUpEnds => (EmitsFinalAssistant \/ PutsOneError)]_vars

C14_Witness ==
  /\ pc = "poll"
  /\ Len(chat_history) = 4
  /\ chat_history[3].content = <<"Tool executed successfully (no output)">>
  /\ result_content = <<>>
  /\ IsFinalAssistant(chat_history[4])
  /\ \E i \in DOMAIN response_queue : response_queue[i] = Event("assistant", <<"final">>)

\* ------------------------------------------------------------------- C15
\* a step in which the first completion call answers without tool calls
PlainAnswer == pc = "first_call" /\ pc' = "poll" /\ ~PutsOneError

\* C15: an exchange starts by appending the user entry and issuing one completion
\* call, with no event put; while that call is awaited nothing is appended, called
\* or put; when it answers without tool calls, the assistant entry with the
\* response's content is appended right after the user entry, no further call is
\* made, and exactly one event is put: of kind assistant, with that content.
C15_PlainExchange ==
  /\ [][dequeued' # dequeued =>
          (DequeueStartsExchange /\ response_queue' = response_queue)]_vars
  /\ [][(pc = "first_call" /\ pc' = "first_call") =>
          (/\ chat_history' = chat_history
           /\ ncalls' = ncalls
           /\ response_queue' \in {response_queue, <<>>})]_vars
  /\ [][PlainAnswer =>
          (/\ Last(chat_history) = UserEntry(Last(dequeued))
           /\ EmitsFinalAssistant
           /\ Last(chat_history').content = <<"reply">>
           /\ ncalls' = ncalls
           /\ session' = session
           /\ tool_calls' = <<>>)]_vars

C15_Witness ==
  /\ pc = "poll"
  /\ ncalls = 1
  /\ Len(chat_history) = 2
  /\ IsUser(chat_history[1])
  /\ IsFinalAssistant(chat_history[2])
  /\ response_queue = <<Event("assistant", chat_history[2].content)>>

IsToolEvent(e) == e.sender = "tool"

\* the texts of the tool-invocation events put so far, displayed or still queued
ToolNotices ==
  LET shown == SelectSeq(chat_display, IsToolEvent)
      queued == SelectSeq(response_queue, IsToolEvent)
  IN  [i \in 1..Len(shown) |-> shown[i].text] \o [i \in 1..Len(queued) |-> queued[i].message]

\* the tool calls the transcript's assistant entries hold, in order
RECURSIVE ToolCallsAsked(_)
ToolCallsAsked(history) ==
  IF history = <<>> THEN <<>>
  ELSE ToolCallsAsked(SubSeq(history, 1, Len(history) - 1)) \o Last(history).tool_calls

ToolEntries == SelectSeq(chat_history, IsTool)

\* the worker is in a turn with tool calls; it is inside execute_mcp_tool
InTurn == pc \in {"tool_args", "tool_open", "tool_call", "followup"}
Invoking == pc \in {"tool_open", "tool_call"}

\* C17: in a turn with tool calls c1..ck, while ci is dealt with the transcript
\* holds, after the assistant entry, the tool entries of c1..c(i-1) in that order
\* and nothing else; the event for ci is put before ci is invoked and only one
\* invocation is in progress at a time: every event put so far belongs to a tool
\* entry, in the same order, except the last one while its call is being invoked;
\* the entry of ci is appended when its invocation returns, and only then does the
\* loop go on to c(i+1).
C17_SequentialToolCalls ==
  /\ [](InTurn =>
          LET done == IF pc = "followup" THEN Len(tool_calls) ELSE idx - 1
              a == Len(chat_history) - done
          IN  /\ a >= 1
              /\ chat_history[a] = ToolCallsEntry(tool_calls)
              /\ \A j \in 1..done :
                   /\ IsTool(chat_history[a + j])
                   /\ chat_history[a + j].tool_call_id = tool_calls[j].id)
  /\ [](/\ Len(ToolNotices) = Len(ToolEntries) + (IF Invoking THEN 1 ELSE 0)
        /\ \A n \in 1..Len(ToolEntries) :
             \E c \in DOMAIN ToolCallsAsked(chat_history) :
               /\ ToolCallsAsked(chat_history)[c].id = ToolEntries[n].tool_call_id
               /\ ToolNotices[n][2] = ToolCallsAsked(chat_history)[c].name
        /\ Invoking => Last(ToolNotices)[2] = tool_calls[idx].name
        /\ session = "open" => pc = "tool_call")
  /\ [][(Invoking /\ ~Invoking') =>
          (/\ chat_history' = Append(chat_history, Last(chat_history'))
           /\ IsTool(Last(chat_history'))
           /\ Last(chat_history').tool_call_id = tool_calls[idx].id
           /\ session' = "closed"
           /\ IF idx < Len(tool_calls)
                THEN pc' = "tool_args" /\ idx' = idx + 1
                ELSE pc' = "followup")]_vars
  /\ [][(~Invoking /\ Invoking') =>
          (/\ pc = "tool_args"
           /\ chat_history' = chat_history
           /\ idx' = idx
           /\ Len(response_queue') = Len(response_queue) + 1
           /\ Last(response_queue').sender = "tool")]_vars

C17_Witness ==
  /\ pc = "tool_call"
  /\ idx = 2
  /\ tool_calls[1].name # tool_calls[2].name
  /\ Len(ToolNotices) = 2
  /\ IsTool(Last(chat_history))

\* ------------------------------------------------------------------- C18
IsAssistantEvent(e) == e.sender = "assistant"

\* the texts of the assistant events put so far, displayed (the welcome line is
\* the first) or still queued
AssistantTexts ==
  LET shown == SelectSeq(chat_display, IsAssistantEvent)
      queued == SelectSeq(response_queue, IsAssistantEvent)
  IN  [i \in 1..Len(shown) |-> shown[i].text] \o [i \in 1..Len(queued) |-> queued[i].message]

\* C18: every exchange whose first response carried tool calls has issued exactly
\* one follow-up completion call by the time it ends (so the calls made are one per
\* user entry plus one per assistant entry holding tool calls, at most two per
\* exchange); the follow-up is issued with the transcript ending in the last tool
\* call's entry and with no tool declarations; its content is the final assistant
\* entry and the last assistant event; and no tool is executed for it (the tool
\* entries never outnumber the tool calls of the first responses).
C18_OneFollowUp ==
  /\ pc \notin ExchangePcs =>
       ncalls = Len(SelectSeq(chat_history, IsUser))
                  + Len(SelectSeq(chat_history, HoldsToolCalls))
  /\ ncalls <= 2 * Len(SelectSeq(chat_history, IsUser))
  /\ pc = "followup" =>
       /\ request.tools = <<>>
       /\ request.messages = chat_history
       /\ IsTool(Last(chat_history))
       /\ Last(chat_history).tool_call_id = Last(tool_calls).id
  /\ (/\ pc \notin ExchangePcs
      /\ Len(chat_history) >= 2
      /\ IsFinalAssistant(Last(chat_history))
      /\ IsTool(chat_history[Len(chat_history) - 1]))
       => Last(AssistantTexts) = <<"ChatGPT:">> \o Last(chat_history).content
          \/ Last(AssistantTexts) = Last(chat_history).content
  /\ Len(ToolEntries) <= Len(ToolCallsAsked(chat_history))
  /\ pc \in {"poll", "first_call", "followup", "done"} => session = "closed"

\* ------------------------------------------------------------------- C19
\* a step in which chat_with_gpt issues the first completion call of an exchange
FirstCallIssued == pc = "poll" /\ pc' = "first_call"

\* C19: the first completion request of an exchange carries the whole transcript,
\* the new user entry last; if the catalog is not empty when the request is built
\* it declares the catalog's tools, one by one, with tool_choice "auto"; if the
\* catalog is empty it declares no tool and its tool_choice is None. While the
\* call is awaited the request is still the transcript.
C19_FirstRequest ==
  /\ [][FirstCallIssued =>
          (/\ request'.messages = chat_history'
           /\ Len(chat_history') = Len(chat_history) + 1
           /\ SubSeq(chat_history', 1, Len(chat_history)) = chat_history
           /\ IsUser(Last(chat_history'))
           /\ IF mcp_tools # <<>>
                THEN /\ request'.tool_choice = "auto"
                     /\ Len(request'.tools) = Len(mcp_tools)
                     /\ \A i \in DOMAIN mcp_tools :
                          request'.tools[i].function.name = mcp_tools[i].name
                ELSE /\ request'.tool_choice = "None"
                     /\ request'.tools = <<>>)]_vars
  /\ [](pc = "first_call" =>
          /\ request.messages = chat_history
          /\ (request.tools # <<>>) = (request.tool_choice = "auto")
          /\ (request.tools = <<>>) = (request.tool_choice = "None"))

C19_Witness ==
  /\ pc = "first_call"
  /\ Len(request.messages) = 3
  /\ request.tool_choice = "auto"
  /\ request.tools # <<>>

\* ------------------------------------------------------------------- C20
IsTerminalEvent(e) == e.sender \in {"assistant", "error"}

\* the lines of the chat window that come from terminal events of the worker: not
\* the welcome line, not the "not connected" line send_message_sync writes itself
IsTerminalLine(line) ==
  /\ line.sender \in {"assistant", "error"}
  /\ line.text # <<"ChatGPT:", "Welcome">>
  /\ line.text # <<"Error:">> \o NotConnectedText

\* the number of terminal events the worker has put so far
TerminalEvents ==
  Len(SelectSeq(chat_display, IsTerminalLine)) + Len(SelectSeq(response_queue, IsTerminalEvent))

\* C20: the worker dequeues only between exchanges and always the head of the
\* queue; while an exchange is in flight the queue only grows at its tail; every
\* exchange ends by putting one terminal event, so a message's exchange starts
\* (its user entry is appended) only when every earlier exchange has put its own;
\* and the user entries are the dequeued messages, in the order they were enqueued.
C20_OneExchangeAtATime ==
  /\ [][dequeued' # dequeued => (pc = "poll" /\ DequeueStartsExchange)]_vars
  /\ [][(pc \in ExchangePcs) =>
          (/\ dequeued' = dequeued
           /\ \/ message_queue' = message_queue
              \/ /\ Len(message_queue') = Len(message_queue) + 1
                 /\ SubSeq(message_queue', 1, Len(message_queue)) = message_queue
           /\ Len(SelectSeq(chat_history', IsUser)) = Len(SelectSeq(chat_history, IsUser)))]_vars
  /\ [][(pc \in ExchangePcs /\ pc' \notin ExchangePcs) =>
          (/\ pc' = "poll"
           /\ Len(response_queue') = Len(response_queue) + 1
           /\ IsTerminalEvent(Last(response_queue')))]_vars
  /\ [](TerminalEvents = Len(SelectSeq(chat_history, IsUser))
                           - (IF pc \in ExchangePcs THEN 1 ELSE 0))
  /\ []UserEntriesFollowDequeues
  /\ [][message_queue' # message_queue =>
          \/ /\ message_queue # <<>>
             /\ message_queue' = Tail(message_queue)
             /\ dequeued' = Append(dequeued, Head(message_queue))
          \/ /\ dequeued' = dequeued
             /\ Len(message_queue') = Len(message_queue) + 1
             /\ SubSeq(message_queue', 1, Len(message_queue)) = message_queue]_vars

C20_Witness ==
  /\ pc = "first_call"
  /\ Len(dequeued) = 2
  /\ TerminalEvents = 1
  /\ UserTexts(chat_history) = <<MsgText(1), MsgText(2)>>
  /\ message_queue = <<QUIT>>

\* ------------------------------------------------------------------- C21
\* C21: no step of the GUI thread (send_message_sync, check_responses, on_closing,
\* root.destroy, complete_setup, get_mcp_command) and no step of a setup thread
\* changes the transcript; every step that changes it is a step of the worker.
C21_TranscriptWorkerOnly ==
  /\ [][(GuiNext \/ SetupNext) => chat_history' = chat_history]_vars
  /\ [][chat_history' # chat_history => WorkerNext]_vars

C21_Witness ==
  /\ Len(chat_history) >= 3
  /\ Len(chat_display) >= 4
  /\ pcB \in {"ok", "failed"}
  /\ gui = "closed"
  /\ pc \in ExchangePcs

\* ------------------------------------------------------------------- C22
\* C22: the backend client handle, the catalog and the provider launch parameters
\* belong to the worker; at the least, no other thread assigns one of them while an
\* exchange of the worker, which reads them, is in flight.
C22_WorkerOwnsHandles ==
  [][(pc \in ExchangePcs) =>
       (WorkerNext \/ UNCHANGED <<openai_client, mcp_tools, mcp_server_params>>)]_vars

\* ------------------------------------------------------------------- C23
\* C23: execute_mcp_tool opens a session of its own (none is open when it starts),
\* calls call_tool once in it and returns; whenever it returns, with a result, with
\* the no-output text or with an error text, the session is closed; outside
\* execute_mcp_tool no session is open, so the worker never holds two.
C23_EphemeralSessions ==
  /\ [](session = "open" => pc = "tool_call")
  /\ [](~Invoking => session = "closed")
  /\ [][(~Invoking /\ Invoking') => (session = "closed" /\ session' = "closed")]_vars
  /\ [][(pc = "tool_open" /\ pc' = "tool_call") =>
          (session = "closed" /\ session' = "open")]_vars
  /\ [][(pc = "tool_call" /\ pc' # "tool_call") =>
          (/\ session' = "closed"
           /\ pc' \in {"tool_args", "followup"}
           /\ Len(chat_history') = Len(chat_history) + 1
           /\ Last(chat_history').content = last_tool_result')]_vars
  /\ [][(Invoking /\ ~Invoking') => session' = "closed"]_vars

C23_Witness ==
  /\ pc = "tool_call"
  /\ idx = 2
  /\ session = "open"
  /\ Mentions(last_tool_result, CallFailed)

\* ------------------------------------------------------------------- C24
\* a step in which an exchange ends with an error event
EndsWithError == pc \in ExchangePcs /\ pc' \notin ExchangePcs /\ PutsOneError

\* C24: every step leaves the transcript as it is or appends one entry to it, so
\* what it held stays a prefix of what it holds; the step in which an exchange
\* fails appends nothing and removes nothing: the user entry, and the assistant
\* entry with the tool calls and the tool entries if there are any, stay, and no
\* final assistant entry closes the exchange.
C24_AppendOnly ==
  /\ [][/\ Len(chat_history') \in {Len(chat_history), Len(chat_history) + 1}
        /\ SubSeq(chat_history', 1, Len(chat_history)) = chat_history]_vars
  /\ [][EndsWithError =>
          (/\ chat_history' = chat_history
           /\ chat_history # <<>>
           /\ ~IsFinalAssistant(Last(chat_history))
           /\ \E u \in DOMAIN chat_history :
                /\ chat_history[u] = UserEntry(Last(dequeued))
                /\ \A j \in (u + 1)..Len(chat_history) :
                     IsTool(chat_history[j]) \/ HoldsToolCalls(chat_history[j]))]_vars

C24_Witness ==
  /\ pc = "first_call"
  /\ Len(chat_history) = 4
  /\ HoldsToolCalls(chat_history[2])
  /\ IsTool(chat_history[3])
  /\ IsUser(chat_history[4])

\* ------------------------------------------------------------------- C25
\* the tool has an inputSchema attribute
HasSchema(tool) == "inputSchema" \in DOMAIN tool

\* C25: in every request built from a catalog, the declaration of each tool has
\* the tool's name and description; its parameters are the tool's inputSchema
\* when the tool has one, and the empty-object schema when it has none.
C25_SchemaOrEmptyObject ==
  [](ncalls >= 1 =>
       /\ DOMAIN request.tools = DOMAIN mcp_tools
       /\ \A i \in DOMAIN mcp_tools :
            LET decl == request.tools[i].function
                tool == mcp_tools[i]
            IN /\ decl.name = tool.name
               /\ decl.description = tool.description
               /\ HasSchema(tool) => decl.parameters = tool.inputSchema
               /\ ~HasSchema(tool) =>
                    decl.parameters = "{type: object, properties: {}}")

C25_Witness ==
  /\ ncalls >= 1
  /\ Len(mcp_tools) = 2
  /\ mcp_tools[1] = Ping
  /\ mcp_tools[2] = Scan
  /\ request.tools[1].function.parameters = "schema2"
  /\ request.tools[2].function.parameters = EmptySchema

\* ------------------------------------------------------------------- C26
IsWorkerLine(line) == IsToolEvent(line) \/ IsTerminalLine(line)

\* the senders of the events the worker has put on response_queue so far, in the
\* order they were put: those check_responses has displayed, then those still queued
EventKinds ==
  LET shown == SelectSeq(chat_display, IsWorkerLine)
  IN  [i \in 1..Len(shown) |-> shown[i].sender] \o
      [i \in 1..Len(response_queue) |-> response_queue[i].sender]

\* the k-th exchange in the transcript: from the k-th user entry to the entry
\* before the next user entry
UserPositions == {i \in DOMAIN chat_history : IsUser(chat_history[i])}
NthUser(k) ==
  CHOOSE i \in UserPositions : Cardinality({j \in UserPositions : j <= i}) = k
ExchangeEnd(k) ==
  IF k = Cardinality(UserPositions) THEN Len(chat_history) ELSE NthUser(k + 1) - 1
ExchangeCompleted(k) == IsFinalAssistant(chat_history[ExchangeEnd(k)])
ToolEntriesOf(k) ==
  Cardinality({j \in NthUser(k)..ExchangeEnd(k) : IsTool(chat_history[j])})

\* the position of the k-th terminal event among the events put (0 for k = 0)
TerminalPositions == {i \in DOMAIN EventKinds : EventKinds[i] \in {"assistant", "error"}}
NthTerminal(k) ==
  IF k = 0 THEN 0
  ELSE CHOOSE i \in TerminalPositions : Cardinality({j \in TerminalPositions : j <= i}) = k

\* the exchanges that have returned
Finished == Cardinality(UserPositions) - (IF pc \in ExchangePcs THEN 1 ELSE 0)

Dequeues == dequeued' # dequeued

\* C27: the loop ends in the step that dequeues an item equal to "QUIT" and in no
\* other step: a dequeued "QUIT" always ends it, whoever enqueued it, and any other
\* dequeued item starts an exchange. The step that ends the loop appends no user
\* entry, builds no request and puts no event, so no user entry ever holds "QUIT".
\* Once the loop has ended nothing is dequeued, the transcript and the worker's
\* events stay as they are, and what is queued behind the item stays queued.
C27_InBandSentinel ==
  /\ [][(pc' = "done" /\ pc # "done") =>
          (/\ pc = "poll"
           /\ message_queue # <<>>
           /\ Head(message_queue) = "QUIT"
           /\ dequeued' = Append(dequeued, "QUIT")
           /\ message_queue' = Tail(message_queue))]_vars
  /\ [][Dequeues =>
          IF Last(dequeued') = "QUIT"
            THEN /\ pc' = "done"
                 /\ chat_history' = chat_history
                 /\ request' = request
                 /\ ncalls' = ncalls
                 /\ response_queue' = response_queue
            ELSE /\ pc' = "first_call"
                 /\ chat_history' = Append(chat_history, UserEntry(Last(dequeued')))]_vars
  /\ [](\A i \in DOMAIN chat_history :
          IsUser(chat_history[i]) => chat_history[i].content # <<"QUIT">>)
  /\ [][(pc = "done") =>
          (/\ pc' = "done"
           /\ ~Dequeues
           /\ chat_history' = chat_history
           /\ EventKinds' = EventKinds
           /\ Len(message_queue') >= Len(message_queue)
           /\ SubSeq(message_queue', 1, Len(message_queue)) = message_queue)]_vars

\* the loop was ended by a "QUIT" the user typed; the message typed after it and
\* the item on_closing put are still queued
C27_Witness ==
  /\ pc = "done"
  /\ dequeued = <<"QUIT">>
  /\ gui = "closed"
  /\ Len(message_queue) = 2
  /\ message_queue[1] # "QUIT"
  /\ message_queue[2] = "QUIT"
  /\ chat_history = <<>>

=============================================================================
